---- MODULE Spec2Model ----
(***************************************************************************)
(* Model of ScheduledMaintenanceWorkflow                                   *)
(* (src/agents/maintenance/workflows/scheduled_maintenance_workflow.py):   *)
(* the constructor, and run() as a sequence of collaborator calls with the *)
(* gates and the catch-all handler between them.  Python values are tagged *)
(* records ("none", "str", "datetime", "list", "dict") so that truthiness  *)
(* and isinstance tests are computed as the interpreter computes them.     *)
(***************************************************************************)
EXTENDS Integers, Sequences, FiniteSets, TLC

VARIABLES
    SUPABASE_URL,        \* settings value (module global, line 27)
    SUPABASE_KEY,        \* settings value (module global, line 27)
    environ0,            \* os.environ as it was before the constructor ran
    environ,             \* os.environ
    wf,                  \* "none" | "ready" | "raised": outcome of __init__
    init_error,          \* message of the exception __init__ re-raised
    constructed,         \* sub-collaborators constructed so far, in order
    pc,                  \* position of the current run()
    runNo,               \* number of run() invocations started
    period_start,        \* argument of the current run()
    period_end,          \* argument of the current run()
    result_summary,      \* local of run()
    filters,             \* local of run()
    records,             \* local of run()
    analysis_results,    \* local of run()
    machines_to_service, \* local of run()
    schedule_results,    \* local of run()
    write_results,       \* local of run()
    calls,               \* collaborator invocations of the current run()
    propagated,          \* TRUE iff the current run() raised to its caller
    init_exc,            \* class of the exception __init__ re-raised
    main_pc,             \* position of main(); "off" when run() is called directly
    args,                \* main: the parsed command-line arguments
    date_range,          \* main: the date texts handed to strptime
    main_period_start,   \* main: local period_start
    main_period_end,     \* main: local period_end
    result,              \* main: its return value
    stdout,              \* main: the lines printed
    stateless,           \* TRUE iff the collaborators are functions of their inputs
    memo,                \* stateless collaborators: the answer given to each input
    summary_id,          \* identity of the dict result_summary refers to
    prev,                \* the summary the previous run() returned, as seen now
    other                \* the frame of an overlapping run() that is not running now

vars == <<SUPABASE_URL, SUPABASE_KEY, environ0, environ, wf, init_error,
          constructed, pc, runNo, period_start, period_end, result_summary,
          filters, records, analysis_results, machines_to_service,
          schedule_results, write_results, calls, propagated, init_exc,
          main_pc, args, date_range, main_period_start, main_period_end,
          result, stdout, stateless, memo, summary_id, prev, other>>

ctorVars == <<SUPABASE_URL, SUPABASE_KEY, environ0, environ, wf, init_error,
              init_exc, constructed>>

mainVars == <<main_pc, args, date_range, main_period_start, main_period_end,
              result, stdout>>

histVars == <<stateless, memo, summary_id, prev, other>>

(***************************************************************************)
(* Bounds                                                                  *)
(***************************************************************************)
MaxRuns == 2
MaxTasks == 2

(***************************************************************************)
(* Python values                                                           *)
(***************************************************************************)
None == [kind |-> "none"]
Str(s) == [kind |-> "str", s |-> s]
DateTime(y, mo, d, h, mi, sec, us) ==
    [kind |-> "datetime", year |-> y, month |-> mo, day |-> d,
     hour |-> h, minute |-> mi, second |-> sec, microsecond |-> us]
List(items) == [kind |-> "list", items |-> items]
Dict(d) == [kind |-> "dict", d |-> d]
EmptyMap == [k \in {} |-> 0]

\* The text "YYYY-MM-DD" of a date argument, by its three fields
DateText(y, mo, d) == [kind |-> "date_text", year |-> y, month |-> mo, day |-> d]

\* bool(v): None, "", [] and {} are falsy; a datetime is always truthy
Truthy(v) ==
    CASE v.kind = "none" -> FALSE
      [] v.kind = "date_text" -> TRUE
      [] v.kind = "str" -> v.s # ""
      [] v.kind = "datetime" -> TRUE
      [] v.kind = "list" -> Len(v.items) > 0
      [] v.kind = "dict" -> DOMAIN v.d # {}

Pad2(n) == IF n < 10 THEN "0" \o ToString(n) ELSE ToString(n)

Pad4(n) ==
    IF n < 10 THEN "000" \o ToString(n)
    ELSE IF n < 100 THEN "00" \o ToString(n)
    ELSE IF n < 1000 THEN "0" \o ToString(n)
    ELSE ToString(n)

Pad6(n) ==
    IF n < 10 THEN "00000" \o ToString(n)
    ELSE IF n < 100 THEN "0000" \o ToString(n)
    ELSE IF n < 1000 THEN "000" \o ToString(n)
    ELSE IF n < 10000 THEN "00" \o ToString(n)
    ELSE IF n < 100000 THEN "0" \o ToString(n)
    ELSE ToString(n)

\* datetime.isoformat() of a naive datetime
IsoFormat(dt) ==
    Pad4(dt.year) \o "-" \o Pad2(dt.month) \o "-" \o Pad2(dt.day) \o "T"
    \o Pad2(dt.hour) \o ":" \o Pad2(dt.minute) \o ":" \o Pad2(dt.second)
    \o (IF dt.microsecond # 0 THEN "." \o Pad6(dt.microsecond) ELSE "")

\* x.isoformat() if isinstance(x, datetime) else x
Normalize(x) == IF x.kind = "datetime" THEN Str(IsoFormat(x)) ELSE x

(***************************************************************************)
(* Inputs                                                                  *)
(***************************************************************************)
ConfigValues == {None, Str(""), Str("https://db.example")}

Environs == {EmptyMap, ("SUPABASE_URL" :> "old-url") @@ ("SUPABASE_KEY" :> "old-key")}

Messages == {"connection refused", "timeout"}

PeriodValues ==
    {None,
     DateTime(2024, 1, 1, 0, 0, 0, 0),
     DateTime(2024, 1, 31, 23, 59, 59, 999999),
     Str("2024-02-01T00:00:00")}

\* The bounds a further or overlapping invocation is called with
RepeatValues == {None, DateTime(2024, 1, 1, 0, 0, 0, 0)}

\* Classes derived from Exception that a collaborator raises on failure
ExceptionClasses == {"ConnectionError", "ValueError", "AttributeError"}

Returned(v) == [raises |-> FALSE, value |-> v, exc |-> "", msg |-> ""]
Raised(c, m) == [raises |-> TRUE, value |-> None, exc |-> c, msg |-> m]
Failures == {Raised("ConnectionError", m) : m \in Messages}

QueryOutcomes ==
    {Returned(None), Returned(List(<<>>)), Returned(List(<<"row1", "row2">>))}
    \cup Failures

AnalysisOutcomes ==
    {Returned(None), Returned(Dict(EmptyMap)), Returned(Dict("clusters" :> 2))}
    \cup Failures

InterpretOutcomes ==
    {Returned(None), Returned(List(<<>>)), Returned(List(<<"M1">>)),
     Returned(List(<<"M1", "M2">>))}
    \cup Failures

ScheduleOutcomes ==
    {Returned(Dict(EmptyMap)), Returned(Dict("scheduled" :> 1))} \cup Failures

WriteOutcomes ==
    {Returned(None), Returned(Dict(EmptyMap)), Returned(Dict("tasks_failed" :> 1))}
    \cup {Returned(Dict("tasks_created" :> n)) : n \in 0..MaxTasks}
    \cup Failures

NotifyOutcomes == {Returned(None)} \cup Failures

(***************************************************************************)
(* __init__                                                                *)
(***************************************************************************)
ConfigErrorMsg == "SUPABASE_URL and SUPABASE_KEY must be set in settings"

CtorOrder ==
    <<"SupabaseClient", "MaintenanceTaskScheduler", "MaintenanceTaskWriter",
      "MaintenanceNotifier">>

\* Variant: the settings are validated only after the client is created
ConstructLateCheck(url, key, env, failAt, msg) ==
    IF ~Truthy(url) \/ ~Truthy(key)
    THEN [wf |-> "raised", exc |-> "ValueError", error |-> ConfigErrorMsg, environ |-> env,
          constructed |-> <<"SupabaseClient">>]
    ELSE LET env2 == ("SUPABASE_URL" :> url.s) @@ ("SUPABASE_KEY" :> key.s) @@ env
         IN IF failAt = 0
            THEN [wf |-> "ready", exc |-> "", error |-> "", environ |-> env2,
                  constructed |-> CtorOrder]
            ELSE [wf |-> "raised", exc |-> "ConnectionError", error |-> msg, environ |-> env2,
                  constructed |-> SubSeq(CtorOrder, 1, failAt - 1)]

\* Variant: the except clause of __init__ logs the failure without re-raising
ConstructSwallow(url, key, env, failAt, msg) ==
    IF ~Truthy(url) \/ ~Truthy(key)
    THEN [wf |-> "raised", exc |-> "ValueError", error |-> ConfigErrorMsg, environ |-> env,
          constructed |-> <<>>]
    ELSE LET env2 == ("SUPABASE_URL" :> url.s) @@ ("SUPABASE_KEY" :> key.s) @@ env
         IN IF failAt = 0
            THEN [wf |-> "ready", exc |-> "", error |-> "", environ |-> env2,
                  constructed |-> CtorOrder]
            ELSE [wf |-> "ready", exc |-> "ConnectionError", error |-> msg, environ |-> env2,
                  constructed |-> SubSeq(CtorOrder, 1, failAt - 1)]

\* The constructor's outcome; failAt = 0 when no sub-collaborator fails,
\* else the index in CtorOrder of the one whose construction raises msg.
Construct(url, key, env, failAt, msg) ==
    IF ~Truthy(url) \/ ~Truthy(key)
    THEN [wf |-> "raised", exc |-> "ValueError", error |-> ConfigErrorMsg, environ |-> env,
          constructed |-> <<>>]
    ELSE LET env2 == ("SUPABASE_URL" :> url.s) @@ ("SUPABASE_KEY" :> key.s) @@ env
         IN IF failAt = 0
            THEN [wf |-> "ready", exc |-> "", error |-> "", environ |-> env2,
                  constructed |-> CtorOrder]
            ELSE [wf |-> "raised", exc |-> "ConnectionError", error |-> msg, environ |-> env2,
                  constructed |-> SubSeq(CtorOrder, 1, failAt - 1)]

NewWorkflow ==
    /\ wf = "none"
    /\ main_pc \in {"off", "setup"}
    /\ \E failAt \in 0..Len(CtorOrder), msg \in Messages :
         LET r == Construct(SUPABASE_URL, SUPABASE_KEY, environ, failAt, msg)
         IN /\ wf' = r.wf
            /\ init_error' = r.error
            /\ init_exc' = r.exc
            /\ environ' = r.environ
            /\ constructed' = r.constructed
    /\ UNCHANGED <<SUPABASE_URL, SUPABASE_KEY, environ0, pc, runNo,
                   period_start, period_end, result_summary, filters, records,
                   analysis_results, machines_to_service, schedule_results,
                   write_results, calls, propagated, mainVars, histVars>>

(***************************************************************************)
(* run()                                                                   *)
(***************************************************************************)
NoRecordsMsg == "No machine records found in database for the specified period"
NoAnalysisMsg == "No results from machine clustering analysis"
ErrorPrefix == "Error in workflow execution: "
QueryLimit == 1000

NewSummary(ps, pe) ==
    [analysis_success |-> FALSE, tasks_created |-> 0, errors |-> <<>>,
     period_start |-> Normalize(ps), period_end |-> Normalize(pe)]

AppendError(s, m) == [s EXCEPT !.errors = Append(@, m)]

\* Variant: the branch for an end bound without a start bound is missing
BuildFiltersNoEndOnly(ps, pe) ==
    IF Truthy(ps) /\ Truthy(pe)
    THEN ("resolved_at.gte" :> Normalize(ps).s) @@ ("resolved_at.lte" :> Normalize(pe).s)
    ELSE IF Truthy(ps)
    THEN ("resolved_at.gte" :> Normalize(ps).s)
    ELSE [k \in {} |-> ""]

BuildFilters(ps, pe) ==
    IF Truthy(ps) /\ Truthy(pe)
    THEN ("resolved_at.gte" :> Normalize(ps).s) @@ ("resolved_at.lte" :> Normalize(pe).s)
    ELSE IF Truthy(ps)
    THEN ("resolved_at.gte" :> Normalize(ps).s)
    ELSE IF Truthy(pe)
    THEN ("resolved_at.lte" :> Normalize(pe).s)
    ELSE [k \in {} |-> ""]

\* Variant: the clause catches ValueError only
CatchesValueErrorOnly(c) == c = "ValueError"

\* except Exception (line 175): the classes the clause catches
Catches(c) == c \in ExceptionClasses

\* Variant: the handler also resets the summary's outcome fields
ExceptHandlerReset(s, m) ==
    [s EXCEPT !.errors = Append(@, ErrorPrefix \o m),
              !.analysis_success = FALSE, !.tasks_created = 0]

\* except Exception as e: ... return result_summary
ExceptHandler(s, m) == AppendError(s, ErrorPrefix \o m)

\* Variant: the lookup ignores the stored value
GetAlwaysDefault(d, key, default) == default

\* dict.get(key, default)
Get(d, key, default) == IF key \in DOMAIN d THEN d[key] ELSE default

NoneGetMsg == "'NoneType' object has no attribute 'get'"

\* Variant: "if records is None" instead of "if not records"
FetchGateNoneOnly(s, r) ==
    IF r.kind = "none"
    THEN [summary |-> AppendError(s, NoRecordsMsg), pc |-> "returned"]
    ELSE [summary |-> s, pc |-> "analyze"]

\* Variant: the empty-result branch records the error but does not return
FetchGateNoReturn(s, r) ==
    IF ~Truthy(r)
    THEN [summary |-> AppendError(s, NoRecordsMsg), pc |-> "analyze"]
    ELSE [summary |-> s, pc |-> "analyze"]

\* Variant: the empty-result branch returns without recording an error
FetchGateSilent(s, r) ==
    IF ~Truthy(r)
    THEN [summary |-> s, pc |-> "returned"]
    ELSE [summary |-> s, pc |-> "analyze"]

\* if not records: ... (lines 133-139)
FetchGate(s, r) ==
    IF ~Truthy(r)
    THEN [summary |-> AppendError(s, NoRecordsMsg), pc |-> "returned"]
    ELSE [summary |-> s, pc |-> "analyze"]

\* Variant: analysis_success is set before the emptiness test
AnalyzeGateEarlySuccess(s, a) ==
    IF ~Truthy(a)
    THEN [summary |-> AppendError([s EXCEPT !.analysis_success = TRUE], NoAnalysisMsg),
          pc |-> "returned"]
    ELSE [summary |-> [s EXCEPT !.analysis_success = TRUE], pc |-> "interpret"]

\* Variant: analysis_success is never set
AnalyzeGateNoSuccess(s, a) ==
    IF ~Truthy(a)
    THEN [summary |-> AppendError(s, NoAnalysisMsg), pc |-> "returned"]
    ELSE [summary |-> s, pc |-> "interpret"]

\* if not analysis_results: ... (lines 145-151)
AnalyzeGate(s, a) ==
    IF ~Truthy(a)
    THEN [summary |-> AppendError(s, NoAnalysisMsg), pc |-> "returned"]
    ELSE [summary |-> [s EXCEPT !.analysis_success = TRUE], pc |-> "interpret"]

\* Variant: an empty machine list is reported as an error
InterpretGateWithError(s, m) ==
    IF ~Truthy(m)
    THEN [summary |-> AppendError(s, "No machines identified for maintenance"),
          pc |-> "returned"]
    ELSE [summary |-> s, pc |-> "schedule"]

\* Variant: an empty (not absent) machine list does not end the run
InterpretGateNoneOnly(s, m) ==
    IF m.kind = "none"
    THEN [summary |-> s, pc |-> "returned"]
    ELSE [summary |-> s, pc |-> "schedule"]

\* if not machines_to_service: ... (lines 157-159)
InterpretGate(s, m) ==
    IF ~Truthy(m)
    THEN [summary |-> s, pc |-> "returned"]
    ELSE [summary |-> s, pc |-> "schedule"]

\* Variant: ">= 0" instead of "> 0" in the test of line 169
WriteGateNonNegative(s, w) ==
    LET n == Get(w.d, "tasks_created", 0)
    IN [summary |-> [s EXCEPT !.tasks_created = n],
        pc |-> IF n >= 0 THEN "notify" ELSE "returned"]

\* write_results.get('tasks_created', 0) and the test of line 169
WriteGate(s, w) ==
    LET n == Get(w.d, "tasks_created", 0)
    IN [summary |-> [s EXCEPT !.tasks_created = n],
        pc |-> IF n > 0 THEN "notify" ELSE "returned"]

Call(name, arg, out) == [name |-> name, arg |-> arg, out |-> out]

\* Variant: the row limit grows with the number of invocations of the instance
QueryArgsPaged(f) ==
    [table_name |-> "downtime_detail", columns |-> "*", filters |-> f,
     limit |-> QueryLimit * runNo]

QueryArgs(f) ==
    [table_name |-> "downtime_detail", columns |-> "*", filters |-> f,
     limit |-> QueryLimit]

\* An exception of class c with message m leaves the try block
Throw(c, m) ==
    IF Catches(c)
    THEN /\ result_summary' = ExceptHandler(result_summary, m)
         /\ pc' = "returned"
         /\ propagated' = FALSE
    ELSE /\ result_summary' = result_summary
         /\ pc' = "raised"
         /\ propagated' = TRUE

\* The answers a collaborator may give to an input: any of its outcomes, or,
\* for a stateless collaborator asked before, the answer it gave then
Answers(name, arg, outcomes) ==
    IF stateless /\ <<name, arg>> \in DOMAIN memo
    THEN {memo[<<name, arg>>]}
    ELSE outcomes

Remember(name, arg, out) ==
    IF stateless THEN (<<name, arg>> :> out) @@ memo ELSE memo

\* Variant: one dict, held by the instance, serves every invocation
NewDictShared(n) == 1

\* result_summary = {...} (line 88): the n-th invocation creates a new dict
NewDict(n) == n

\* A returned summary as its holder sees it after the dict with identity id
\* was given the value s
Seen(p, id, s) == IF p.id = id THEN [p EXCEPT !.summary = s] ELSE p

NoPrev ==
    [id |-> 0, summary |-> NewSummary(None, None),
     returned |-> NewSummary(None, None)]

\* A suspended frame after the dict with identity id was given the value s
SeenFrame(f, id, s) ==
    IF f.summary_id = id THEN [f EXCEPT !.result_summary = s] ELSE f

\* What a collaborator call leaves behind besides its result
Effects(name, arg, out) ==
    /\ memo' = Remember(name, arg, out)
    /\ prev' = Seen(prev, summary_id, result_summary')
    /\ other' = SeenFrame(other, summary_id, result_summary')

runFrame ==
    <<ctorVars, mainVars, runNo, period_start, period_end, filters, stateless,
      summary_id>>

\* The arguments run() is called with: any, or the ones main passes (216-219)
StartArgs == IF main_pc = "off" THEN PeriodValues ELSE {main_period_start}
EndArgs == IF main_pc = "off" THEN PeriodValues ELSE {main_period_end}

\* Lines 88-123 of an invocation with arguments ps and pe
Enter(ps, pe) ==
    /\ period_start' = ps
    /\ period_end' = pe
    /\ result_summary' = NewSummary(ps, pe)
    /\ summary_id' = NewDict(runNo + 1)
    /\ filters' = BuildFilters(ps, pe)
    /\ runNo' = runNo + 1
    /\ pc' = "fetch"
    /\ records' = None
    /\ analysis_results' = None
    /\ machines_to_service' = None
    /\ schedule_results' = None
    /\ write_results' = None
    /\ calls' = <<>>
    /\ propagated' = FALSE

\* The first run() on the instance
Run ==
    /\ wf = "ready"
    /\ pc = "idle"
    /\ main_pc \in {"off", "setup"}
    /\ \E ps \in StartArgs, pe \in EndArgs : Enter(ps, pe)
    /\ UNCHANGED <<ctorVars, mainVars, stateless, memo, prev, other>>

\* A further invocation with arguments ps and pe, after the previous one
\* returned its summary to the caller, who keeps it
Reenter(ps, pe) ==
    /\ wf = "ready"
    /\ pc = "returned"
    /\ main_pc = "off"
    /\ runNo < MaxRuns
    /\ Enter(ps, pe)
    /\ prev' = Seen([id |-> summary_id, summary |-> result_summary,
                     returned |-> result_summary],
                    summary_id', result_summary')
    /\ UNCHANGED <<ctorVars, mainVars, stateless, memo, other>>

\* A further run() on the instance
RunAgain == \E ps \in RepeatValues, pe \in RepeatValues : Reenter(ps, pe)

\* A further run() on the instance with the arguments of the previous one
RunSame == Reenter(period_start, period_end)

\* The locals of the invocation that is running now
Frame ==
    [pc |-> pc, period_start |-> period_start, period_end |-> period_end,
     result_summary |-> result_summary, summary_id |-> summary_id,
     filters |-> filters, records |-> records,
     analysis_results |-> analysis_results,
     machines_to_service |-> machines_to_service,
     schedule_results |-> schedule_results, write_results |-> write_results,
     calls |-> calls, propagated |-> propagated]

NoFrame ==
    [pc |-> "idle", period_start |-> None, period_end |-> None,
     result_summary |-> NewSummary(None, None), summary_id |-> 0,
     filters |-> [k \in {} |-> ""], records |-> None,
     analysis_results |-> None, machines_to_service |-> None,
     schedule_results |-> None, write_results |-> None, calls |-> <<>>,
     propagated |-> FALSE]

InFlight == {"fetch", "analyze", "interpret", "schedule", "write", "notify"}

\* A second run() is entered on the instance while the first is between two
\* of its collaborator calls
RunOverlapping ==
    /\ wf = "ready"
    /\ main_pc = "off"
    /\ pc \in InFlight
    /\ other.pc = "idle"
    /\ \E ps \in RepeatValues, pe \in RepeatValues :
         /\ Enter(ps, pe)
         /\ other' = SeenFrame(Frame, summary_id', result_summary')
    /\ UNCHANGED <<ctorVars, mainVars, stateless, memo, prev>>

\* The scheduler lets the other invocation run
Switch ==
    /\ other.pc \in InFlight
    /\ pc \in InFlight \cup {"returned"}
    /\ pc' = other.pc
    /\ period_start' = other.period_start
    /\ period_end' = other.period_end
    /\ result_summary' = other.result_summary
    /\ summary_id' = other.summary_id
    /\ filters' = other.filters
    /\ records' = other.records
    /\ analysis_results' = other.analysis_results
    /\ machines_to_service' = other.machines_to_service
    /\ schedule_results' = other.schedule_results
    /\ write_results' = other.write_results
    /\ calls' = other.calls
    /\ propagated' = other.propagated
    /\ other' = Frame
    /\ UNCHANGED <<ctorVars, mainVars, runNo, stateless, memo, prev>>

\* Step 1: self.db.query_table(...) and its gate
Fetch ==
    /\ pc = "fetch"
    /\ \E out \in Answers("query_table", QueryArgs(filters), QueryOutcomes) :
         /\ calls' = Append(calls, Call("query_table", QueryArgs(filters), out))
         /\ IF out.raises
            THEN /\ Throw(out.exc, out.msg)
                 /\ records' = records
            ELSE /\ records' = out.value
                 /\ result_summary' = FetchGate(result_summary, out.value).summary
                 /\ pc' = FetchGate(result_summary, out.value).pc
                 /\ propagated' = FALSE
         /\ Effects("query_table", QueryArgs(filters), out)
    /\ UNCHANGED <<runFrame, analysis_results, machines_to_service,
                   schedule_results, write_results>>

\* Step 2: run_analysis(records) and its gate
Analyze ==
    /\ pc = "analyze"
    /\ \E out \in Answers("run_analysis", records, AnalysisOutcomes) :
         /\ calls' = Append(calls, Call("run_analysis", records, out))
         /\ IF out.raises
            THEN /\ Throw(out.exc, out.msg)
                 /\ analysis_results' = analysis_results
            ELSE /\ analysis_results' = out.value
                 /\ result_summary' = AnalyzeGate(result_summary, out.value).summary
                 /\ pc' = AnalyzeGate(result_summary, out.value).pc
                 /\ propagated' = FALSE
         /\ Effects("run_analysis", records, out)
    /\ UNCHANGED <<runFrame, records, machines_to_service, schedule_results,
                   write_results>>

\* Step 3: interpret_results(analysis_results) and its gate
Interpret ==
    /\ pc = "interpret"
    /\ \E out \in Answers("interpret_results", analysis_results, InterpretOutcomes) :
         /\ calls' = Append(calls, Call("interpret_results", analysis_results, out))
         /\ IF out.raises
            THEN /\ Throw(out.exc, out.msg)
                 /\ machines_to_service' = machines_to_service
            ELSE /\ machines_to_service' = out.value
                 /\ result_summary' = InterpretGate(result_summary, out.value).summary
                 /\ pc' = InterpretGate(result_summary, out.value).pc
                 /\ propagated' = FALSE
         /\ Effects("interpret_results", analysis_results, out)
    /\ UNCHANGED <<runFrame, records, analysis_results, schedule_results,
                   write_results>>

\* Step 4a: self.scheduler.schedule_maintenance_tasks(machines_to_service)
Schedule ==
    /\ pc = "schedule"
    /\ \E out \in Answers("schedule_maintenance_tasks", machines_to_service, ScheduleOutcomes) :
         /\ calls' = Append(calls, Call("schedule_maintenance_tasks",
                                       machines_to_service, out))
         /\ IF out.raises
            THEN /\ Throw(out.exc, out.msg)
                 /\ schedule_results' = schedule_results
            ELSE /\ schedule_results' = out.value
                 /\ result_summary' = result_summary
                 /\ pc' = "write"
                 /\ propagated' = FALSE
         /\ Effects("schedule_maintenance_tasks", machines_to_service, out)
    /\ UNCHANGED <<runFrame, records, analysis_results, machines_to_service,
                   write_results>>

\* Step 4b: self.writer.write_maintenance_tasks(...), tasks_created, line 169
Write ==
    /\ pc = "write"
    /\ \E out \in Answers("write_maintenance_tasks", schedule_results, WriteOutcomes) :
         /\ calls' = Append(calls, Call("write_maintenance_tasks",
                                       schedule_results, out))
         /\ IF out.raises
            THEN /\ Throw(out.exc, out.msg)
                 /\ write_results' = write_results
            ELSE /\ write_results' = out.value
                 /\ IF out.value.kind # "dict"
                    THEN Throw("AttributeError", NoneGetMsg)
                    ELSE /\ result_summary' = WriteGate(result_summary, out.value).summary
                         /\ pc' = WriteGate(result_summary, out.value).pc
                         /\ propagated' = FALSE
         /\ Effects("write_maintenance_tasks", schedule_results, out)
    /\ UNCHANGED <<runFrame, records, analysis_results, machines_to_service,
                   schedule_results>>

\* Step 5: self.notifier.send_notifications(machines_to_service)
Notify ==
    /\ pc = "notify"
    /\ \E out \in Answers("send_notifications", machines_to_service, NotifyOutcomes) :
         /\ calls' = Append(calls, Call("send_notifications",
                                       machines_to_service, out))
         /\ IF out.raises
            THEN Throw(out.exc, out.msg)
            ELSE /\ result_summary' = result_summary
                 /\ pc' = "returned"
                 /\ propagated' = FALSE
         /\ Effects("send_notifications", machines_to_service, out)
    /\ UNCHANGED <<runFrame, records, analysis_results, machines_to_service,
                   schedule_results, write_results>>

(***************************************************************************)
(* main()                                                                  *)
(***************************************************************************)
DateArgs ==
    {None, DateText(2024, 1, 1), DateText(2024, 1, 31), DateText(2024, 2, 30)}

\* DateSelector.get_date_range(mode): a pair of date texts, or a failure
DateSelectorOutcomes ==
    {Returned(<<DateText(2024, 1, 1), DateText(2024, 1, 31)>>),
     Returned(<<DateText(2024, 1, 31), DateText(2024, 13, 1)>>),
     Raised("ValueError", "timeout")}

DaysInMonth(y, mo) ==
    IF mo = 2
    THEN (IF (y % 4 = 0 /\ y % 100 # 0) \/ y % 400 = 0 THEN 29 ELSE 28)
    ELSE IF mo \in {4, 6, 9, 11} THEN 30 ELSE 31

\* datetime.strptime(text, "%Y-%m-%d")
Strptime(t) ==
    IF t.month \notin 1..12
    THEN Raised("ValueError", "time data does not match format '%Y-%m-%d'")
    ELSE IF t.day \notin 1..DaysInMonth(t.year, t.month)
    THEN Raised("ValueError", "day is out of range for month")
    ELSE Returned(DateTime(t.year, t.month, t.day, 0, 0, 0, 0))

\* Variant: the end of day is set to the second, without the microseconds
EndOfDaySeconds(dt) == [dt EXCEPT !.hour = 23, !.minute = 59, !.second = 59]

\* period_end.replace(hour=23, minute=59, second=59, microsecond=999999)
EndOfDay(dt) ==
    [dt EXCEPT !.hour = 23, !.minute = 59, !.second = 59, !.microsecond = 999999]

\* strftime('%Y-%m-%d')
StrftimeDate(dt) == Pad4(dt.year) \o "-" \o Pad2(dt.month) \o "-" \o Pad2(dt.day)

\* Variant: the clause of main catches ValueError only
MainCatchesValueErrorOnly(c) == c = "ValueError"

\* except Exception (line 235)
MainCatches(c) == c \in ExceptionClasses

\* The lines printed for a summary (lines 222-232)
SummaryLines(ps, pe, r) ==
    <<"\n=== Scheduled Maintenance Workflow Summary ===",
      "Analysis period: " \o StrftimeDate(ps) \o " to " \o StrftimeDate(pe),
      "Analysis status: " \o (IF r.analysis_success THEN "Success" ELSE "Failed"),
      "Tasks created: " \o ToString(r.tasks_created)>>
    \o (IF r.errors # <<>>
        THEN <<"\nErrors encountered:">>
             \o [i \in 1..Len(r.errors) |-> "- " \o r.errors[i]]
        ELSE <<>>)
    \o <<"\nWorkflow execution complete.">>

\* An exception of class c with message m leaves the try block of main
MainThrow(c, m) ==
    IF MainCatches(c)
    THEN /\ main_pc' = "failed"
         /\ stdout' = Append(stdout, "\nError running workflow: " \o m)
         /\ result' = [status |-> "failed", error |-> m]
    ELSE /\ main_pc' = "crashed"
         /\ stdout' = stdout
         /\ result' = result

runVars == <<pc, runNo, period_start, period_end, result_summary, filters,
             records, analysis_results, machines_to_service, schedule_results,
             write_results, calls, propagated>>

\* Lines 193-212: the arguments, the date range, strptime, end of day
MainSetup ==
    /\ main_pc = "start"
    /\ \E sd \in DateArgs, ed \in DateArgs, sel \in DateSelectorOutcomes :
         /\ args' = [start_date |-> sd, end_date |-> ed]
         /\ LET fromArgs == Truthy(sd) /\ Truthy(ed)
                range == IF fromArgs THEN <<sd, ed>> ELSE sel.value
            IN IF ~fromArgs /\ sel.raises
               THEN /\ MainThrow(sel.exc, sel.msg)
                    /\ UNCHANGED <<date_range, main_period_start, main_period_end>>
               ELSE /\ date_range' = range
                    /\ IF Strptime(range[1]).raises
                       THEN /\ MainThrow(Strptime(range[1]).exc, Strptime(range[1]).msg)
                            /\ UNCHANGED <<main_period_start, main_period_end>>
                       ELSE IF Strptime(range[2]).raises
                       THEN /\ MainThrow(Strptime(range[2]).exc, Strptime(range[2]).msg)
                            /\ main_period_start' = Strptime(range[1]).value
                            /\ UNCHANGED main_period_end
                       ELSE /\ main_period_start' = Strptime(range[1]).value
                            /\ main_period_end' = EndOfDay(Strptime(range[2]).value)
                            /\ main_pc' = "setup"
                            /\ UNCHANGED <<result, stdout>>
    /\ UNCHANGED <<ctorVars, runVars, histVars>>

\* ScheduledMaintenanceWorkflow() raised (line 215): the handler of 235-239
MainInitFailed ==
    /\ main_pc = "setup"
    /\ wf = "raised"
    /\ MainThrow(init_exc, init_error)
    /\ UNCHANGED <<ctorVars, runVars, histVars, args, date_range,
                   main_period_start, main_period_end>>

\* wf.run(...) returned (lines 216-233): print the summary and return it
MainPrint ==
    /\ main_pc = "setup"
    /\ pc = "returned"
    /\ stdout' = stdout \o SummaryLines(main_period_start, main_period_end, result_summary)
    /\ result' = result_summary
    /\ main_pc' = "done"
    /\ UNCHANGED <<ctorVars, runVars, histVars, args, date_range,
                   main_period_start, main_period_end>>

\* The state before the constructor is called
Setup ==
    /\ SUPABASE_URL \in ConfigValues
    /\ SUPABASE_KEY \in ConfigValues
    /\ environ0 \in Environs
    /\ environ = environ0
    /\ wf = "none"
    /\ init_error = ""
    /\ constructed = <<>>
    /\ pc = "idle"
    /\ runNo = 0
    /\ period_start = None
    /\ period_end = None
    /\ result_summary = NewSummary(None, None)
    /\ filters = [k \in {} |-> ""]
    /\ records = None
    /\ analysis_results = None
    /\ machines_to_service = None
    /\ schedule_results = None
    /\ write_results = None
    /\ calls = <<>>
    /\ propagated = FALSE
    /\ init_exc = ""
    /\ main_pc \in {"off", "start"}
    /\ args = [start_date |-> None, end_date |-> None]
    /\ date_range = <<None, None>>
    /\ main_period_start = None
    /\ main_period_end = None
    /\ result = None
    /\ stdout = <<>>
    /\ memo = <<>>
    /\ summary_id = 0
    /\ prev = NoPrev
    /\ other = NoFrame

\* Collaborators of any behaviour
Init ==
    /\ Setup
    /\ stateless = FALSE

\* A configured instance whose run() is called directly
InitRuns ==
    /\ Setup
    /\ stateless = FALSE
    /\ SUPABASE_URL = Str("https://db.example")
    /\ SUPABASE_KEY = Str("https://db.example")
    /\ environ0 = EmptyMap
    /\ main_pc = "off"

\* The same, its collaborators being stateless functions of their inputs
InitStateless ==
    /\ Setup
    /\ stateless = TRUE
    /\ SUPABASE_URL = Str("https://db.example")
    /\ SUPABASE_KEY = Str("https://db.example")
    /\ environ0 = EmptyMap
    /\ main_pc = "off"

Next ==
    \/ NewWorkflow
    \/ Run
    \/ Fetch
    \/ Analyze
    \/ Interpret
    \/ Schedule
    \/ Write
    \/ Notify
    \/ MainSetup
    \/ MainInitFailed
    \/ MainPrint

Spec == Init /\ [][Next]_vars

\* Repeated invocations of run() on one instance
NextRuns ==
    \/ NewWorkflow
    \/ Run
    \/ RunAgain
    \/ Fetch
    \/ Analyze
    \/ Interpret
    \/ Schedule
    \/ Write
    \/ Notify

SpecRuns == InitRuns /\ [][NextRuns]_vars

\* run() called again with the same arguments, the collaborators stateless
NextTwice ==
    \/ NewWorkflow
    \/ Run
    \/ RunSame
    \/ Fetch
    \/ Analyze
    \/ Interpret
    \/ Schedule
    \/ Write
    \/ Notify

SpecTwice == InitStateless /\ [][NextTwice]_vars

\* Two overlapping invocations of run(), the collaborators stateless
NextOverlap ==
    \/ NewWorkflow
    \/ Run
    \/ RunOverlapping
    \/ Switch
    \/ Fetch
    \/ Analyze
    \/ Interpret
    \/ Schedule
    \/ Write
    \/ Notify

SpecOverlap == InitStateless /\ [][NextOverlap]_vars

(***************************************************************************)
(* Properties                                                              *)
(***************************************************************************)
PipelineOrder ==
    <<"query_table", "run_analysis", "interpret_results",
      "schedule_maintenance_tasks", "write_maintenance_tasks",
      "send_notifications">>

CallsOf(name) == {i \in 1..Len(calls) : calls[i].name = name}
Invoked(name) == CallsOf(name) # {}
ReturnedEmpty(c) == ~c.out.raises /\ ~Truthy(c.out.value)
ReturnedNonEmpty(c) == ~c.out.raises /\ Truthy(c.out.value)
HasError(m) == \E j \in 1..Len(result_summary.errors) : result_summary.errors[j] = m

\* C1: run() never raises: whenever a collaborator raised in any stage, the
\* run has returned its summary normally and the summary's errors contain
\* "Error in workflow execution: <message>" with the raised message.
C1_RunNeverRaises ==
    /\ ~propagated
    /\ pc # "raised"
    /\ \A i \in 1..Len(calls) :
         calls[i].out.raises =>
           /\ pc = "returned"
           /\ HasError("Error in workflow execution: " \o calls[i].out.msg)

C1_Witness ==
    /\ pc = "returned"
    /\ Len(calls) = 6
    /\ calls[6].name = "send_notifications"
    /\ calls[6].out.raises
    /\ result_summary.errors = <<"Error in workflow execution: timeout">>

\* C2: when the Data Source query returns an empty or absent result, run()
\* returns analysis_success = false, tasks_created = 0 and the single error
\* "No machine records found ...", and no other collaborator is invoked.
C2_EmptyFetch ==
    \A i \in CallsOf("query_table") :
      ReturnedEmpty(calls[i]) =>
        /\ pc = "returned"
        /\ result_summary.analysis_success = FALSE
        /\ result_summary.tasks_created = 0
        /\ result_summary.errors =
             <<"No machine records found in database for the specified period">>
        /\ \A j \in 1..Len(calls) : calls[j].name = "query_table"
        /\ Len(calls) = 1

C2_Witness ==
    /\ pc = "returned"
    /\ Len(calls) = 1
    /\ calls[1].name = "query_table"
    /\ calls[1].out = Returned(List(<<>>))
    /\ Len(result_summary.errors) = 1

\* C3: when the Data Source returns at least one record and the Cluster
\* Analyzer returns an empty or absent result, run() returns
\* analysis_success = false, tasks_created = 0 and the single error "No
\* results from machine clustering analysis", and Interpreter, Scheduler,
\* Writer and Notifier are not invoked.
C3_EmptyAnalysis ==
    \A i \in CallsOf("run_analysis") :
      ReturnedEmpty(calls[i]) =>
        /\ pc = "returned"
        /\ result_summary.analysis_success = FALSE
        /\ result_summary.tasks_created = 0
        /\ result_summary.errors = <<"No results from machine clustering analysis">>
        /\ ~Invoked("interpret_results")
        /\ ~Invoked("schedule_maintenance_tasks")
        /\ ~Invoked("write_maintenance_tasks")
        /\ ~Invoked("send_notifications")

C3_Witness ==
    /\ pc = "returned"
    /\ Len(calls) = 2
    /\ ReturnedNonEmpty(calls[1])
    /\ calls[2].name = "run_analysis"
    /\ calls[2].out = Returned(Dict(EmptyMap))
    /\ Len(result_summary.errors) = 1

\* C4: when the Analyzer returns a non-empty result and the Interpreter
\* returns an empty or absent machine list, run() returns analysis_success =
\* true, tasks_created = 0 and no errors, and Scheduler, Writer and Notifier
\* are not invoked.
C4_EmptyInterpretation ==
    \A i \in CallsOf("interpret_results") :
      ReturnedEmpty(calls[i]) =>
        /\ pc = "returned"
        /\ result_summary.analysis_success = TRUE
        /\ result_summary.tasks_created = 0
        /\ result_summary.errors = <<>>
        /\ ~Invoked("schedule_maintenance_tasks")
        /\ ~Invoked("write_maintenance_tasks")
        /\ ~Invoked("send_notifications")

C4_Witness ==
    /\ pc = "returned"
    /\ Len(calls) = 3
    /\ ReturnedNonEmpty(calls[2])
    /\ calls[3].name = "interpret_results"
    /\ calls[3].out = Returned(None)
    /\ result_summary.analysis_success

\* The tasks_created count a Write Result carries (0 when the field is absent)
ReportedCount(w) == IF "tasks_created" \in DOMAIN w.d THEN w.d["tasks_created"] ELSE 0
WriterReturned(c) ==
    c.name = "write_maintenance_tasks" /\ ~c.out.raises /\ c.out.value.kind = "dict"

\* C5: in every returned run in which the Writer returned a Write Result, the
\* Notifier was invoked exactly once, with the machine list the Interpreter
\* returned, if the Write Result's tasks_created is greater than 0, and was
\* not invoked if that count is 0.
C5_NotifyIffTasksCreated ==
    \A i \in 1..Len(calls) :
      (pc = "returned" /\ WriterReturned(calls[i])) =>
        IF ReportedCount(calls[i].out.value) > 0
        THEN /\ Cardinality(CallsOf("send_notifications")) = 1
             /\ \A n \in CallsOf("send_notifications") :
                  \A k \in CallsOf("interpret_results") :
                    calls[n].arg = calls[k].out.value
        ELSE ~Invoked("send_notifications")

C5_Witness ==
    /\ pc = "returned"
    /\ Len(calls) = 6
    /\ calls[3].out.value = List(<<"M1", "M2">>)
    /\ calls[5].out.value = Dict("tasks_created" :> MaxTasks)
    /\ calls[6].name = "send_notifications"
    /\ calls[6].arg = List(<<"M1", "M2">>)

\* C6: the Filter Map passed to the Data Source query has the key
\* resolved_at.gte exactly when period_start is present and the key
\* resolved_at.lte exactly when period_end is present, and each value is the
\* normalized textual form of the corresponding input.
C6_FilterMap ==
    \A i \in CallsOf("query_table") :
      LET f == calls[i].arg.filters
      IN /\ DOMAIN f = {k \in {"resolved_at.gte"} : period_start # None}
                       \cup {k \in {"resolved_at.lte"} : period_end # None}
         /\ period_start # None =>
              f["resolved_at.gte"] =
                IF period_start.kind = "datetime" THEN IsoFormat(period_start)
                ELSE period_start.s
         /\ period_end # None =>
              f["resolved_at.lte"] =
                IF period_end.kind = "datetime" THEN IsoFormat(period_end)
                ELSE period_end.s

C6_Witness ==
    /\ Len(calls) >= 1
    /\ period_start = DateTime(2024, 1, 1, 0, 0, 0, 0)
    /\ period_end = None
    /\ calls[1].arg.filters = ("resolved_at.gte" :> "2024-01-01T00:00:00")

\* C7: constructing the orchestrator with the store endpoint or credential
\* missing or empty fails with the configuration error, with no
\* sub-collaborator constructed and the process environment unmodified, and
\* no run() ever starts on that object.
C7_ConfigRequired ==
    (wf # "none" /\ (SUPABASE_URL \in {None, Str("")} \/ SUPABASE_KEY \in {None, Str("")})) =>
      /\ wf = "raised"
      /\ init_error = "SUPABASE_URL and SUPABASE_KEY must be set in settings"
      /\ constructed = <<>>
      /\ environ = environ0
      /\ runNo = 0
      /\ pc = "idle"
      /\ calls = <<>>

C7_Witness ==
    /\ wf = "raised"
    /\ SUPABASE_URL = Str("https://db.example")
    /\ SUPABASE_KEY = Str("")
    /\ environ0 # EmptyMap
    /\ constructed = <<>>

\* C8 as stated: the collaborators are invoked in the fixed order, each at
\* most once, and one is invoked only if every collaborator before it was
\* invoked in this run and returned a non-empty result without raising.
C8_Original ==
    /\ Len(calls) <= Len(PipelineOrder)
    /\ \A i \in 1..Len(calls) :
         /\ calls[i].name = PipelineOrder[i]
         /\ \A j \in 1..(i - 1) : ReturnedNonEmpty(calls[j])

\* C8 (amended): the collaborators are invoked in the fixed order, each at
\* most once, and one is invoked only if every collaborator before it was
\* invoked in this run and returned without raising, with a non-empty result
\* for every one of them other than the Task Scheduler.
C8_PipelineOrder ==
    /\ Len(calls) <= Len(PipelineOrder)
    /\ \A i \in 1..Len(calls) :
         /\ calls[i].name = PipelineOrder[i]
         /\ \A j \in 1..(i - 1) :
              /\ ~calls[j].out.raises
              /\ calls[j].name # "schedule_maintenance_tasks" => Truthy(calls[j].out.value)

C8_Witness ==
    /\ pc = "returned"
    /\ Len(calls) = 6
    /\ calls[4].name = "schedule_maintenance_tasks"
    /\ ReturnedEmpty(calls[4])
    /\ calls[5].name = "write_maintenance_tasks"
    /\ calls[6].name = "send_notifications"

\* C9: once the Writer has returned a Write Result, the summary's
\* tasks_created equals the result's tasks_created field when present and 0
\* when absent; in a run in which the Writer has not returned a Write Result,
\* tasks_created is 0.
C9_TasksCreated ==
    IF \E i \in 1..Len(calls) : WriterReturned(calls[i])
    THEN \A i \in 1..Len(calls) :
           WriterReturned(calls[i]) =>
             result_summary.tasks_created = ReportedCount(calls[i].out.value)
    ELSE result_summary.tasks_created = 0

C9_Witness ==
    /\ pc = "returned"
    /\ Len(calls) = 5
    /\ calls[5].out.value = Dict("tasks_failed" :> 1)
    /\ result_summary.tasks_created = 0

\* C10: whether the Notifier returned normally or raised, the returned
\* summary has analysis_success = true and tasks_created equal to the count
\* the Writer reported.
C10_NotifyFrame ==
    \A n \in CallsOf("send_notifications") :
      /\ pc = "returned"
      /\ result_summary.analysis_success = TRUE
      /\ \A i \in CallsOf("write_maintenance_tasks") :
           result_summary.tasks_created = ReportedCount(calls[i].out.value)

C10_Witness ==
    /\ pc = "returned"
    /\ Len(calls) = 6
    /\ calls[6].out = Raised("ConnectionError", "connection refused")
    /\ calls[5].out.value = Dict("tasks_created" :> MaxTasks)
    /\ result_summary.tasks_created = MaxTasks
    /\ result_summary.analysis_success

\* C13: construction is ordered and all-or-nothing: the sub-collaborators are
\* constructed in the order client, scheduler, writer, notifier; when one
\* fails the failure reaches the caller, no later one is constructed and no
\* orchestrator is returned (so no run starts).
C13_ConstructionAllOrNothing ==
    wf # "none" =>
      /\ \E n \in 0..4 :
           constructed = SubSeq(<<"SupabaseClient", "MaintenanceTaskScheduler",
                                  "MaintenanceTaskWriter", "MaintenanceNotifier">>, 1, n)
      /\ wf = "ready" <=> Len(constructed) = 4
      /\ init_error # "" => wf = "raised"
      /\ wf = "raised" => init_error # "" /\ runNo = 0 /\ pc = "idle" /\ calls = <<>>

C13_Witness ==
    /\ wf = "raised"
    /\ init_error = "timeout"
    /\ constructed = <<"SupabaseClient", "MaintenanceTaskScheduler">>

\* C14: when a collaborator raises, the summary returned is the one built so
\* far: a failure in Fetch or Analyze gives analysis_success = false and
\* tasks_created = 0, a failure in Interpret, Schedule or Write gives
\* analysis_success = true and tasks_created = 0; errors holds exactly the
\* one "Error in workflow execution" entry and no later stage is invoked.
C14_SummarySoFar ==
    \A i \in 1..Len(calls) :
      (calls[i].out.raises /\ calls[i].name # "send_notifications") =>
        /\ pc = "returned"
        /\ i = Len(calls)
        /\ result_summary.errors =
             <<"Error in workflow execution: " \o calls[i].out.msg>>
        /\ result_summary.tasks_created = 0
        /\ result_summary.analysis_success =
             (calls[i].name \in {"interpret_results", "schedule_maintenance_tasks",
                                 "write_maintenance_tasks"})

C14_Witness ==
    /\ pc = "returned"
    /\ Len(calls) = 5
    /\ calls[5].name = "write_maintenance_tasks"
    /\ calls[5].out.raises
    /\ result_summary.analysis_success
    /\ Len(result_summary.errors) = 1

\* C17: every summary run() returns has at most one entry in errors.
C17_AtMostOneError ==
    pc = "returned" => Len(result_summary.errors) <= 1

C17_Witness ==
    /\ pc = "returned"
    /\ Len(calls) = 2
    /\ calls[2].out.raises
    /\ Len(result_summary.errors) = 1

\* C18: in every summary run() returns, analysis_success = false implies a
\* non-empty errors list, and tasks_created # 0 implies analysis_success.
C18_SummaryConsistent ==
    pc = "returned" =>
      /\ ~result_summary.analysis_success => result_summary.errors # <<>>
      /\ result_summary.tasks_created # 0 => result_summary.analysis_success

C18_Witness ==
    /\ pc = "returned"
    /\ ~result_summary.analysis_success
    /\ result_summary.errors =
         <<"No machine records found in database for the specified period">>

\* The text "YYYY-MM-DD" a date argument stands for
DateString(t) == Pad4(t.year) \o "-" \o Pad2(t.month) \o "-" \o Pad2(t.day)

\* C11: when the Time Window is supplied as calendar dates (through main),
\* the end boundary used for the run, both the resolved_at.lte filter value
\* and the echoed period_end, is the last instant of the end day (23:59:59
\* and 999999 microseconds), and the start boundary is the first instant of
\* the start day.
C11_EndOfDay ==
    (main_pc \in {"setup", "done"} /\ runNo > 0) =>
      /\ period_end.hour = 23 /\ period_end.minute = 59
      /\ period_end.second = 59 /\ period_end.microsecond = 999999
      /\ period_end.year = date_range[2].year
      /\ period_end.month = date_range[2].month
      /\ period_end.day = date_range[2].day
      /\ period_start.hour = 0 /\ period_start.minute = 0
      /\ period_start.second = 0 /\ period_start.microsecond = 0
      /\ result_summary.period_end =
           Str(DateString(date_range[2]) \o "T23:59:59.999999")
      /\ result_summary.period_start =
           Str(DateString(date_range[1]) \o "T00:00:00")
      /\ \A i \in CallsOf("query_table") :
           /\ calls[i].arg.filters["resolved_at.lte"] =
                DateString(date_range[2]) \o "T23:59:59.999999"
           /\ calls[i].arg.filters["resolved_at.gte"] =
                DateString(date_range[1]) \o "T00:00:00"

C11_Witness ==
    /\ main_pc = "done"
    /\ date_range = <<DateText(2024, 1, 1), DateText(2024, 1, 31)>>
    /\ calls[1].arg.filters["resolved_at.lte"] = "2024-01-31T23:59:59.999999"
    /\ result.period_end = Str("2024-01-31T23:59:59.999999")
    /\ result.period_start = Str("2024-01-01T00:00:00")

MainFinished == main_pc \in {"done", "failed", "crashed"}

\* C16 as stated: when run() returns a summary carrying errors main prints
\* the summary with its error list and completes normally, whereas a failure
\* while parsing the dates or constructing the orchestrator terminates main
\* abnormally.
C16_Original ==
    /\ (MainFinished /\ runNo > 0) => main_pc = "done"
    /\ (MainFinished /\ runNo = 0) => main_pc = "crashed"

\* C16 (amended): main crashes neither on workflow-level failures nor on
\* failures of its own setup: when run() returns a summary, main prints it
\* with every error of its list and returns it; when selecting or parsing the
\* dates or constructing the orchestrator fails, main prints "Error running
\* workflow: <message>" and returns {status: failed, error: <message>}.
C16_MainNeverCrashes ==
    /\ main_pc # "crashed"
    /\ main_pc = "done" =>
         /\ pc = "returned"
         /\ result = result_summary
         /\ \A j \in 1..Len(result_summary.errors) :
              \E k \in 1..Len(stdout) : stdout[k] = "- " \o result_summary.errors[j]
         /\ stdout[Len(stdout)] = "\nWorkflow execution complete."
    /\ main_pc = "failed" =>
         /\ runNo = 0
         /\ result.status = "failed"
         /\ stdout = <<"\nError running workflow: " \o result.error>>
         /\ wf = "raised" => result.error = init_error
    /\ (MainFinished /\ runNo = 0) => main_pc = "failed"

C16_Witness ==
    /\ main_pc = "failed"
    /\ wf = "raised"
    /\ constructed = <<"SupabaseClient">>
    /\ result = [status |-> "failed", error |-> "connection refused"]

\* The errors a run leaves in its summary, by its own collaborator calls
OwnErrors(log) ==
    IF log = <<>> THEN <<>>
    ELSE LET last == log[Len(log)]
         IN IF last.out.raises
            THEN <<"Error in workflow execution: " \o last.out.msg>>
            ELSE IF last.name = "query_table" /\ ~Truthy(last.out.value)
            THEN <<"No machine records found in database for the specified period">>
            ELSE IF last.name = "run_analysis" /\ ~Truthy(last.out.value)
            THEN <<"No results from machine clustering analysis">>
            ELSE IF last.name = "write_maintenance_tasks" /\ last.out.value.kind # "dict"
            THEN <<"Error in workflow execution: 'NoneType' object has no attribute 'get'">>
            ELSE <<>>

\* C12: run() called twice on the same orchestrator with identical arguments,
\* the collaborators returning the same outputs for the same inputs, yields
\* two summaries with identical analysis_success and identical tasks_created.
C12_Idempotent ==
    (stateless /\ runNo >= 2 /\ pc = "returned"
       /\ result_summary.period_start = prev.returned.period_start
       /\ result_summary.period_end = prev.returned.period_end) =>
      /\ result_summary.analysis_success = prev.returned.analysis_success
      /\ result_summary.tasks_created = prev.returned.tasks_created

C12_Witness ==
    /\ stateless
    /\ runNo = 2
    /\ pc = "returned"
    /\ Len(calls) = 6
    /\ prev.returned.tasks_created = MaxTasks
    /\ result_summary.tasks_created = MaxTasks
    /\ result_summary.period_end = prev.returned.period_end
    /\ result_summary.period_start = prev.returned.period_start

\* C15: each run starts its own summary at analysis_success = false,
\* tasks_created = 0, errors = []; a summary already returned is not changed
\* by a later run() on the same instance, and the errors of an earlier run
\* do not appear in a later run's summary.
C15_SummaryPerRun ==
    /\ pc = "fetch" =>
         /\ result_summary.analysis_success = FALSE
         /\ result_summary.tasks_created = 0
         /\ result_summary.errors = <<>>
    /\ prev.id # 0 => prev.summary = prev.returned
    /\ (runNo >= 2 /\ pc = "returned") => result_summary.errors = OwnErrors(calls)

C15_Witness ==
    /\ runNo = 2
    /\ pc = "returned"
    /\ prev.returned.errors = <<"Error in workflow execution: timeout">>
    /\ prev.summary = prev.returned
    /\ result_summary.errors = <<>>
    /\ result_summary.tasks_created = MaxTasks

\* The summary of a run() executed alone with arguments ps and pe, by the
\* answers the stateless collaborators give (memo) to the inputs that run
\* hands them; NoSummary when one of these inputs was never answered.
NoSummary == [unknown |-> TRUE]
Text(x) == IF x.kind = "datetime" THEN IsoFormat(x) ELSE x.s
Echo(x) == IF x = None THEN None ELSE Str(Text(x))
WindowFilters(ps, pe) ==
    [k \in {q \in {"resolved_at.gte"} : ps # None} \cup {q \in {"resolved_at.lte"} : pe # None}
       |-> IF k = "resolved_at.gte" THEN Text(ps) ELSE Text(pe)]
Known(name, arg) == <<name, arg>> \in DOMAIN memo
Failed(sum, msg) == [sum EXCEPT !.errors = <<msg>>]
Crashed(sum, out) == Failed(sum, "Error in workflow execution: " \o out.msg)

Alone6(sum, machines) ==
    IF ~Known("send_notifications", machines) THEN NoSummary
    ELSE LET o == memo[<<"send_notifications", machines>>]
         IN IF o.raises THEN Crashed(sum, o) ELSE sum

Alone5(sum, machines, scheduled) ==
    IF ~Known("write_maintenance_tasks", scheduled) THEN NoSummary
    ELSE LET o == memo[<<"write_maintenance_tasks", scheduled>>]
         IN IF o.raises THEN Crashed(sum, o)
            ELSE IF o.value.kind # "dict"
            THEN Failed(sum, "Error in workflow execution: 'NoneType' object has no attribute 'get'")
            ELSE LET n == ReportedCount(o.value)
                     done == [sum EXCEPT !.tasks_created = n]
                 IN IF n > 0 THEN Alone6(done, machines) ELSE done

Alone4(sum, machines) ==
    IF ~Known("schedule_maintenance_tasks", machines) THEN NoSummary
    ELSE LET o == memo[<<"schedule_maintenance_tasks", machines>>]
         IN IF o.raises THEN Crashed(sum, o) ELSE Alone5(sum, machines, o.value)

Alone3(sum, analysis) ==
    IF ~Known("interpret_results", analysis) THEN NoSummary
    ELSE LET o == memo[<<"interpret_results", analysis>>]
         IN IF o.raises THEN Crashed(sum, o)
            ELSE IF ~Truthy(o.value) THEN sum
            ELSE Alone4(sum, o.value)

Alone2(sum, rows) ==
    IF ~Known("run_analysis", rows) THEN NoSummary
    ELSE LET o == memo[<<"run_analysis", rows>>]
         IN IF o.raises THEN Crashed(sum, o)
            ELSE IF ~Truthy(o.value)
            THEN Failed(sum, "No results from machine clustering analysis")
            ELSE Alone3([sum EXCEPT !.analysis_success = TRUE], o.value)

SummaryAlone(ps, pe) ==
    LET sum == [analysis_success |-> FALSE, tasks_created |-> 0, errors |-> <<>>,
                period_start |-> Echo(ps), period_end |-> Echo(pe)]
        query == [table_name |-> "downtime_detail", columns |-> "*",
                  filters |-> WindowFilters(ps, pe), limit |-> 1000]
    IN IF ~Known("query_table", query) THEN NoSummary
       ELSE LET o == memo[<<"query_table", query>>]
            IN IF o.raises THEN Crashed(sum, o)
               ELSE IF ~Truthy(o.value)
               THEN Failed(sum, "No machine records found in database for the specified period")
               ELSE Alone2(sum, o.value)

\* C19: two overlapping invocations of run() on one instance do not
\* interfere: with collaborators that are stateless functions of their
\* inputs, under every interleaving of their stages each invocation returns
\* the summary it would return when executed alone.
C19_NoInterference ==
    stateless =>
      /\ pc = "returned" =>
           result_summary = SummaryAlone(period_start, period_end)
      /\ other.pc = "returned" =>
           other.result_summary = SummaryAlone(other.period_start, other.period_end)

C19_Witness ==
    /\ stateless
    /\ pc = "returned"
    /\ other.pc = "returned"
    /\ Len(other.calls) = 6
    /\ other.result_summary.tasks_created = MaxTasks
    /\ result_summary.errors =
         <<"No machine records found in database for the specified period">>
    /\ summary_id # other.summary_id
====
